---- MODULE Spec2Model ----
(***************************************************************************)
(* llm-phoenix-app/main.py: one process invocation of main() generates a   *)
(* haiku, embeds it, upserts it under id 1 into the Qdrant collection      *)
(* "haikus" and searches the collection with the same embedding, inside    *)
(* OpenTelemetry spans.  The vector store outlives the process, so the     *)
(* model runs main() several times against one store.                      *)
(***************************************************************************)
EXTENDS Integers, Sequences, FiniteSets, TLC

\* ------------------------------------------------------------------ bounds
MaxRuns == 2          \* process invocations in one behaviour
MaxStored == 2        \* points the collection may hold before the first run

\* ------------------------------------------------------- program constants
VectorSize == 1536    \* VectorParams(size=1536, ...)
DefaultLimit == 2     \* search_similar_haikus(..., limit=2)
PointId == 1          \* store_in_qdrant(..., point_id=1)

CollectionName == "haikus"
Cosine == "Cosine"
DefaultEndpoint == "http://localhost:6006/v1/traces"

\* ------------------------------------------------------------- input sets
None == "None"                          \* os.getenv of an unset variable
ApiKeys == {None, "", "sk-key"}         \* OPENAI_API_KEY
EndpointEnv == {None, "http://collector:4317"}
Texts == {"haiku A", "haiku B"}         \* completions the model may return
NoHaikuKey == "<no haiku key>"          \* a payload without the key "haiku"
Payloads == Texts \cup {NoHaikuKey}
Vectors == {0, 1}                       \* unit vectors at k * 45 degrees
ForeignSize == VectorSize \div 2        \* an existing collection of another size
OtherCollection == "docs"
MaxLimit == 3                           \* limits a caller may pass to the search

PointIds == {1, 2, 3}                   \* ids of the points the store may hold
Points == [id : PointIds, vector : Vectors, payload : Payloads]
Configs == {[size |-> VectorSize, distance |-> Cosine],
            [size |-> ForeignSize, distance |-> Cosine]}
NoConfig == [size |-> 0, distance |-> "none"]

VARIABLES
    run,              \* number of process invocations started
    pc,               \* position of main()
    apiKey,           \* OPENAI_API_KEY of this invocation
    endpointEnv,      \* PHOENIX_COLLECTOR_ENDPOINT of this invocation
    phoenix_endpoint, \* local of main()
    collections,      \* vector store: names of the existing collections
    config,           \* vector store: VectorParams of "haikus"
    points,           \* vector store: points of "haikus"
    points0,          \* points of "haikus" when the invocation started
    listing,          \* names returned by get_collections()
    collection_name,  \* name returned by setup_qdrant
    createLog,        \* VectorParams of every create_collection that succeeded
    haiku,            \* local of main()
    embedding,        \* local of main()
    similar_haikus,   \* local of main(): sequence of <<text, score>>
    hits,             \* the hits the vector store returned to the search
    calls,            \* external calls made by this invocation, in order
    error,            \* the exception that is propagating or left main()
    provider,         \* global tracer provider of the process
    spans,            \* spans entered and not yet exited, outermost first
    opened,           \* names of the spans entered by this invocation
    closed,           \* names of the spans exited by this invocation
    exported          \* spans the tracer provider recorded and exported

vars == <<run, pc, apiKey, endpointEnv, phoenix_endpoint, collections, config,
          points, points0, listing, collection_name, createLog, haiku,
          embedding, similar_haikus, hits, calls, error, provider, spans,
          opened, closed, exported>>

storeVars == <<collections, config, points, createLog>>
envVars == <<apiKey, endpointEnv>>
spanVars == <<spans, opened, closed, exported>>
localVars == <<phoenix_endpoint, listing, collection_name, haiku, embedding,
               similar_haikus, hits>>

\* ----------------------------------------------------------------- helpers
Min(a, b) == IF a < b THEN a ELSE b

Abs(a) == IF a < 0 THEN -a ELSE a

Last(s) == s[Len(s)]

Reverse(s) == [i \in 1..Len(s) |-> s[Len(s) + 1 - i]]

IsPrefix(s, t) == Len(s) <= Len(t) /\ \A i \in 1..Len(s) : s[i] = t[i]

Count(s, x) == Cardinality({i \in 1..Len(s) : s[i] = x})

\* Distinct-id subsets of the candidate points.
UniqueIds(ps) == \A p \in ps : \A q \in ps : p.id = q.id => p = q

\* ------------------------------------------------------- the vector store
\* Cosine similarity of two unit vectors at a * 45 and b * 45 degrees,
\* in hundredths.
CosineScore(a, b) ==
    LET d == Abs(a - b) % 8
        dd == Min(d, 8 - d)
    IN  CASE dd = 0 -> 100
          [] dd = 1 -> 71
          [] dd = 2 -> 0
          [] dd = 3 -> -71
          [] OTHER -> -100

Hit(p, q) == [id |-> p.id, payload |-> p.payload, score |-> CosineScore(p.vector, q)]

\* qdrant_client.search: the `limit` nearest points by descending score;
\* which of several equally scored points come first is up to the store.
SearchHits(pts, q, limit) ==
    LET n == Min(limit, Cardinality(pts))
    IN  {[i \in 1..n |-> Hit(f[i], q)] : f \in
          {g \in [1..n -> pts] :
              /\ \A i \in 1..n : \A j \in 1..n : i # j => g[i] # g[j]
              /\ \A i \in 1..n : \A j \in 1..n :
                    i < j => CosineScore(g[i].vector, q) >= CosineScore(g[j].vector, q)
              /\ \A p \in pts : (\A i \in 1..n : g[i] # p) =>
                    \A i \in 1..n : CosineScore(p.vector, q) <= CosineScore(g[i].vector, q)}}

\* an insert that keeps the old point of the same id
Upsert_Insert(pts, p) == pts \cup {p}

\* a write that is acknowledged and lost
Upsert_Drop(pts, p) == pts

\* qdrant_client.upsert of one PointStruct: replaces the point of that id.
Upsert(pts, p) == {x \in pts : x.id # p.id} \cup {p}

\* ------------------------------------------------------------ the program
\* `if api_key is None`: an empty key passes
NotApiKey_NoneOnly(k) == k = None

\* `if not api_key` in setup_environment
NotApiKey(k) == k = None \/ k = ""

\* os.getenv("PHOENIX_COLLECTOR_ENDPOINT", default)
GetEndpoint(e) == IF e = None THEN DefaultEndpoint ELSE e

\* `if not collections`: any collection counts as the target
CollectionMissing_AnyListed(names) == names = {}

\* no membership test: create_collection on every call
CollectionMissing_Always(names) == TRUE

\* `collection_name not in [c.name for c in collections]` in setup_qdrant
CollectionMissing(names) == CollectionName \notin names

\* the pairs in reversed order
HaikuScorePairs_Reversed(search_result) ==
    [i \in 1..Len(search_result) |->
        <<search_result[Len(search_result) + 1 - i].payload,
          search_result[Len(search_result) + 1 - i].score>>]

\* [(hit.payload["haiku"], hit.score) for hit in search_result]
HaikuScorePairs(search_result) ==
    [i \in 1..Len(search_result) |-> <<search_result[i].payload, search_result[i].score>>]

\* hit.payload["haiku"] raises KeyError for a payload without that key
HasKeyError(search_result) ==
    \E i \in 1..Len(search_result) : search_result[i].payload = NoHaikuKey

\* tracer.start_as_current_span(name) on the tracer of trace.get_tracer():
\* a proxy that is a no-op tracer until a global provider is registered, and
\* then starts recording spans whose parent is the current recording span.
CurrentSpan(stack) ==
    IF stack # <<>> /\ Last(stack).recording THEN Last(stack).name ELSE "none"

StartSpan(name, prov, stack) ==
    IF prov = "none"
    THEN [name |-> name, recording |-> FALSE, parent |-> "none"]
    ELSE [name |-> name, recording |-> TRUE, parent |-> CurrentSpan(stack)]

\* leaving a `with` block ends the innermost span; a recording span is
\* handed to the exporter of the registered provider
Exported(s, ep) ==
    IF s.recording THEN {[name |-> s.name, parent |-> s.parent, endpoint |-> ep]} ELSE {}

\* ------------------------------------------------------------------- Init
Init ==
    /\ run = 0
    /\ pc = "idle"
    /\ apiKey = None
    /\ endpointEnv = None
    /\ phoenix_endpoint = ""
    /\ \E docs \in BOOLEAN : \E there \in BOOLEAN :
          /\ collections = (IF docs THEN {OtherCollection} ELSE {})
                             \cup (IF there THEN {CollectionName} ELSE {})
          /\ IF there
             THEN /\ config \in Configs
                  /\ points \in {ps \in SUBSET Points :
                                   UniqueIds(ps) /\ Cardinality(ps) <= MaxStored}
             ELSE /\ config = NoConfig
                  /\ points = {}
    /\ points0 = points
    /\ listing = {}
    /\ collection_name = ""
    /\ createLog = <<>>
    /\ haiku = ""
    /\ embedding = 0
    /\ similar_haikus = <<>>
    /\ hits = <<>>
    /\ calls = <<>>
    /\ error = "none"
    /\ provider = "none"
    /\ spans = <<>>
    /\ opened = <<>>
    /\ closed = <<>>
    /\ exported = {}

\* ---------------------------------------------------------------- actions
Raise(e) == pc' = "raising" /\ error' = e

\* one external call and whether it returned (TRUE) or raised (FALSE)
Call(op, ok) == [op |-> op, ok |-> ok]

Ops(cs) == [i \in 1..Len(cs) |-> cs[i].op]

EnterSpan(name) ==
    /\ spans' = Append(spans, StartSpan(name, provider, spans))
    /\ opened' = Append(opened, name)
    /\ UNCHANGED <<closed, exported>>

ExitSpan ==
    /\ spans' = SubSeq(spans, 1, Len(spans) - 1)
    /\ closed' = Append(closed, Last(spans).name)
    /\ exported' = exported \cup Exported(Last(spans), phoenix_endpoint)
    /\ UNCHANGED opened

\* `python main.py`: a new process with its own environment
StartRun ==
    /\ pc \in {"idle", "done", "failed"}
    /\ run < MaxRuns
    /\ run' = run + 1
    /\ pc' = "main"
    /\ apiKey' \in ApiKeys
    /\ endpointEnv' \in EndpointEnv
    /\ phoenix_endpoint' = ""
    /\ points0' = points
    /\ listing' = {}
    /\ collection_name' = ""
    /\ haiku' = ""
    /\ embedding' = 0
    /\ similar_haikus' = <<>>
    /\ hits' = <<>>
    /\ calls' = <<>>
    /\ error' = "none"
    /\ provider' = "none"
    /\ spans' = <<>>
    /\ opened' = <<>>
    /\ closed' = <<>>
    /\ exported' = {}
    /\ UNCHANGED storeVars

\* tracer = trace.get_tracer(__name__); with tracer.start_as_current_span("main")
EnterMain ==
    /\ pc = "main"
    /\ EnterSpan("main")
    /\ pc' = "setup_environment"
    /\ UNCHANGED <<run, envVars, storeVars, points0, localVars, calls, error, provider>>

SetupEnvironment ==
    /\ pc = "setup_environment"
    /\ calls' = Append(calls, Call("load_dotenv", TRUE))
    /\ IF NotApiKey(apiKey)
       THEN /\ Raise("ValueError")
            /\ UNCHANGED phoenix_endpoint
       ELSE /\ phoenix_endpoint' = GetEndpoint(endpointEnv)
            /\ pc' = "configure_phoenix"
            /\ UNCHANGED error
    /\ UNCHANGED <<run, envVars, storeVars, points0, listing, collection_name,
                   haiku, embedding, similar_haikus, hits, provider, spanVars>>

ConfigurePhoenix ==
    /\ pc = "configure_phoenix"
    /\ \E ok \in BOOLEAN :
          /\ calls' = Append(calls, Call("register", ok))
          /\ IF ok
             THEN /\ provider' = "sdk"
                  /\ pc' = "setup_qdrant"
                  /\ UNCHANGED error
             ELSE /\ Raise("register")
                  /\ UNCHANGED provider
    /\ UNCHANGED <<run, envVars, storeVars, points0, localVars, spanVars>>

SetupQdrant ==
    /\ pc = "setup_qdrant"
    /\ \E listed \in BOOLEAN : \E created \in BOOLEAN :
          IF ~listed
          THEN /\ calls' = Append(calls, Call("get_collections", FALSE))
               /\ Raise("get_collections")
               /\ UNCHANGED <<storeVars, listing, collection_name>>
          ELSE /\ listing' = collections
               /\ IF CollectionMissing(collections)
                  THEN /\ IF created /\ CollectionName \notin collections
                          THEN /\ calls' = calls \o <<Call("get_collections", TRUE),
                                                      Call("create_collection", TRUE)>>
                               /\ collections' = collections \cup {CollectionName}
                               /\ config' = [size |-> VectorSize, distance |-> Cosine]
                               /\ createLog' = Append(createLog, config')
                               /\ collection_name' = CollectionName
                               /\ pc' = "openai_client"
                               /\ UNCHANGED <<points, error>>
                          ELSE /\ calls' = calls \o <<Call("get_collections", TRUE),
                                                      Call("create_collection", FALSE)>>
                               /\ Raise("create_collection")
                               /\ UNCHANGED <<storeVars, collection_name>>
                  ELSE /\ calls' = Append(calls, Call("get_collections", TRUE))
                       /\ collection_name' = CollectionName
                       /\ pc' = "openai_client"
                       /\ UNCHANGED <<storeVars, error>>
    /\ UNCHANGED <<run, envVars, points0, phoenix_endpoint, haiku, embedding,
                   similar_haikus, hits, provider, spanVars>>

\* openai_client = openai.OpenAI(api_key=api_key);
\* with tracer.start_as_current_span("generate-and-store")
EnterGenerateAndStore ==
    /\ pc = "openai_client"
    /\ EnterSpan("generate-and-store")
    /\ pc' = "generate_haiku"
    /\ UNCHANGED <<run, envVars, storeVars, points0, localVars, calls, error, provider>>

\* the except block logs the error and does not re-raise
GenerateHaiku_Swallow ==
    /\ pc = "generate_haiku"
    /\ \/ /\ calls' = Append(calls, Call("chat.completions.create", TRUE))
          /\ haiku' \in Texts
       \/ /\ calls' = Append(calls, Call("chat.completions.create", FALSE))
          /\ haiku' = "None"
    /\ pc' = "generate_embedding"
    /\ UNCHANGED <<run, envVars, storeVars, points0, phoenix_endpoint, listing,
                   collection_name, embedding, similar_haikus, hits, error,
                   provider, spanVars>>

GenerateHaiku ==
    /\ pc = "generate_haiku"
    /\ \/ /\ calls' = Append(calls, Call("chat.completions.create", TRUE))
          /\ haiku' \in Texts
          /\ pc' = "generate_embedding"
          /\ UNCHANGED error
       \/ /\ calls' = Append(calls, Call("chat.completions.create", FALSE))
          /\ Raise("chat.completions.create")
          /\ UNCHANGED haiku
    /\ UNCHANGED <<run, envVars, storeVars, points0, phoenix_endpoint, listing,
                   collection_name, embedding, similar_haikus, hits, provider, spanVars>>

\* a failed embedding request is repeated once
GenerateEmbedding_Retry ==
    /\ pc = "generate_embedding"
    /\ \/ /\ calls' = Append(calls, Call("embeddings.create", TRUE))
          /\ embedding' \in Vectors
          /\ pc' = "store_in_qdrant"
          /\ UNCHANGED error
       \/ /\ calls' = calls \o <<Call("embeddings.create", FALSE),
                                  Call("embeddings.create", TRUE)>>
          /\ embedding' \in Vectors
          /\ pc' = "store_in_qdrant"
          /\ UNCHANGED error
       \/ /\ calls' = calls \o <<Call("embeddings.create", FALSE),
                                  Call("embeddings.create", FALSE)>>
          /\ Raise("embeddings.create")
          /\ UNCHANGED embedding
    /\ UNCHANGED <<run, envVars, storeVars, points0, phoenix_endpoint, listing,
                   collection_name, haiku, similar_haikus, hits, provider, spanVars>>

GenerateEmbedding ==
    /\ pc = "generate_embedding"
    /\ \/ /\ calls' = Append(calls, Call("embeddings.create", TRUE))
          /\ embedding' \in Vectors
          /\ pc' = "store_in_qdrant"
          /\ UNCHANGED error
       \/ /\ calls' = Append(calls, Call("embeddings.create", FALSE))
          /\ Raise("embeddings.create")
          /\ UNCHANGED embedding
    /\ UNCHANGED <<run, envVars, storeVars, points0, phoenix_endpoint, listing,
                   collection_name, haiku, similar_haikus, hits, provider, spanVars>>

StoreInQdrant ==
    /\ pc = "store_in_qdrant"
    /\ \/ /\ config.size = VectorSize
          /\ calls' = Append(calls, Call("upsert", TRUE))
          /\ points' = Upsert(points, [id |-> PointId, vector |-> embedding, payload |-> haiku])
          /\ pc' = "exit_generate"
          /\ UNCHANGED error
       \/ /\ calls' = Append(calls, Call("upsert", FALSE))
          /\ Raise("upsert")
          /\ UNCHANGED points
    /\ UNCHANGED <<run, envVars, collections, config, createLog, points0,
                   localVars, provider, spanVars>>

\* end of the block `with tracer.start_as_current_span("generate-and-store")`
ExitGenerateAndStore ==
    /\ pc = "exit_generate"
    /\ ExitSpan
    /\ pc' = "enter_search"
    /\ UNCHANGED <<run, envVars, storeVars, points0, localVars, calls, error, provider>>

EnterSearchSimilar ==
    /\ pc = "enter_search"
    /\ EnterSpan("search-similar")
    /\ pc' = "search_similar_haikus"
    /\ UNCHANGED <<run, envVars, storeVars, points0, localVars, calls, error, provider>>

SearchSimilarHaikus ==
    /\ pc = "search_similar_haikus"
    /\ \/ /\ calls' = Append(calls, Call("search", TRUE))
          /\ \E search_result \in SearchHits(points, embedding, DefaultLimit) :
                /\ hits' = search_result
                /\ IF HasKeyError(search_result)
                   THEN /\ Raise("KeyError")
                        /\ UNCHANGED similar_haikus
                   ELSE /\ similar_haikus' = HaikuScorePairs(search_result)
                        /\ pc' = "print"
                        /\ UNCHANGED error
       \/ /\ calls' = Append(calls, Call("search", FALSE))
          /\ Raise("search")
          /\ UNCHANGED <<hits, similar_haikus>>
    /\ UNCHANGED <<run, envVars, storeVars, points0, phoenix_endpoint, listing,
                   collection_name, haiku, embedding, provider, spanVars>>

\* the results are printed and the block of "search-similar" ends
ExitSearchSimilar ==
    /\ pc = "print"
    /\ ExitSpan
    /\ pc' = "exit_main"
    /\ UNCHANGED <<run, envVars, storeVars, points0, localVars, calls, error, provider>>

\* the block of "main" ends and main() returns
ExitMain ==
    /\ pc = "exit_main"
    /\ ExitSpan
    /\ pc' = "done"
    /\ UNCHANGED <<run, envVars, storeVars, points0, localVars, calls, error, provider>>

\* the exception ends the outermost span first
Unwind_OuterFirst ==
    /\ pc = "raising"
    /\ spans # <<>>
    /\ spans' = Tail(spans)
    /\ closed' = Append(closed, Head(spans).name)
    /\ exported' = exported \cup Exported(Head(spans), phoenix_endpoint)
    /\ UNCHANGED <<run, pc, envVars, storeVars, points0, localVars, calls, error,
                   provider, opened>>

\* an exception leaves the innermost `with` block it is propagating through
Unwind ==
    /\ pc = "raising"
    /\ spans # <<>>
    /\ ExitSpan
    /\ UNCHANGED <<run, pc, envVars, storeVars, points0, localVars, calls, error, provider>>

\* the exception leaves main() and ends the process
Propagate ==
    /\ pc = "raising"
    /\ spans = <<>>
    /\ pc' = "failed"
    /\ UNCHANGED <<run, envVars, storeVars, points0, localVars, calls, error,
                   provider, spanVars>>

Next ==
    \/ StartRun
    \/ EnterMain
    \/ SetupEnvironment
    \/ ConfigurePhoenix
    \/ SetupQdrant
    \/ EnterGenerateAndStore
    \/ GenerateHaiku
    \/ GenerateEmbedding
    \/ StoreInQdrant
    \/ ExitGenerateAndStore
    \/ EnterSearchSimilar
    \/ SearchSimilarHaikus
    \/ ExitSearchSimilar
    \/ ExitMain
    \/ Unwind
    \/ Propagate

Spec == Init /\ [][Next]_vars

TypeOK ==
    /\ run \in 0..MaxRuns
    /\ apiKey \in ApiKeys
    /\ collections \subseteq {CollectionName, OtherCollection}
    /\ points \subseteq Points
    /\ embedding \in Vectors
    /\ Len(spans) <= 2

\* ------------------------------------------------------------- properties
NetworkCalls == {"register", "get_collections", "create_collection",
                 "chat.completions.create", "embeddings.create", "upsert", "search"}

OrderWithCreate == <<"load_dotenv", "register", "get_collections", "create_collection",
                     "chat.completions.create", "embeddings.create", "upsert", "search">>

OrderWithoutCreate == <<"load_dotenv", "register", "get_collections",
                        "chat.completions.create", "embeddings.create", "upsert", "search">>

Index(order, op) == CHOOSE i \in 1..Len(order) : order[i] = op

Others(ps) == {p \in ps : p.id # 1}

NonIncreasing(pairs) ==
    \A i \in 1..Len(pairs) : \A j \in 1..Len(pairs) : i < j => pairs[i][2] >= pairs[j][2]

\* C1: with OPENAI_API_KEY unset or empty, the run makes no network call
\* (no tracer registration, no vector-store call, no language-model call),
\* never gets past setup_environment, and the error that propagates and
\* leaves main() is the ValueError.
C1_NoKeyNoNetwork ==
    (run > 0 /\ apiKey \in {"None", ""}) =>
        /\ \A i \in 1..Len(calls) : calls[i].op \notin NetworkCalls
        /\ provider = "none"
        /\ pc \in {"main", "setup_environment", "raising", "failed"}
        /\ pc \in {"raising", "failed"} => error = "ValueError"

C1_Witness ==
    /\ pc = "failed"
    /\ apiKey = ""
    /\ error = "ValueError"
    /\ Ops(calls) = <<"load_dotenv">>

\* C2: an external call that failed is the last call of its run: its error
\* is the one propagating out of main() (or already out of it), and no call
\* of a later step has been made after it.
C2_FailureHalts ==
    \A i \in 1..Len(calls) :
        ~calls[i].ok =>
            /\ i = Len(calls)
            /\ error = calls[i].op
            /\ pc \in {"raising", "failed"}

C2_Witness ==
    /\ pc = "failed"
    /\ error = "chat.completions.create"
    /\ Ops(calls) = <<"load_dotenv", "register", "get_collections", "chat.completions.create">>

\* C3: once get_collections has returned, create_collection has been called
\* iff "haikus" was not in the listing, and at most once; when setup_qdrant
\* has returned, the collection exists, a creation was made with size 1536
\* and the cosine metric, and the name returned is "haikus".
C3_CreateIffAbsent ==
    /\ (\E i \in 1..Len(calls) : calls[i].op = "get_collections" /\ calls[i].ok) =>
          /\ Count(Ops(calls), "create_collection") = (IF "haikus" \in listing THEN 0 ELSE 1)
    /\ pc = "openai_client" =>
          /\ collection_name = "haikus"
          /\ "haikus" \in collections
          /\ "haikus" \notin listing =>
                /\ createLog # <<>>
                /\ Last(createLog) = [size |-> 1536, distance |-> "Cosine"]
                /\ config = [size |-> 1536, distance |-> "Cosine"]
                /\ Last(calls) = Call("create_collection", TRUE)

C3_Witness ==
    /\ pc = "openai_client"
    /\ listing = {"docs"}
    /\ Ops(calls) = <<"load_dotenv", "register", "get_collections", "create_collection">>
    /\ config = [size |-> 1536, distance |-> "Cosine"]

\* C4: over all runs the collection is created at most once; a setup_qdrant
\* call never changes the stored points, and one that finds the collection
\* makes no creation call, leaves its size and metric as they are, and
\* returns as soon as the listing succeeded.
C4_SetupIdempotent ==
    [][/\ Len(createLog') <= 1
       /\ pc = "setup_qdrant" =>
             /\ points' = points
             /\ "haikus" \in collections =>
                   /\ config' = config
                   /\ collections' = collections
                   /\ createLog' = createLog
                   /\ \A i \in 1..Len(calls') : calls'[i].op # "create_collection"
                   /\ Last(calls').ok => pc' = "openai_client"]_vars

C4_Witness ==
    /\ run = 2
    /\ pc = "openai_client"
    /\ Len(createLog) = 1
    /\ "haikus" \in listing
    /\ points # {}

\* C5 as stated: in every successful run the results contain the haiku just
\* stored, with its own score, and no result scores strictly higher.
C5_StoredPointReturned ==
    pc = "done" =>
        /\ \E i \in 1..Len(similar_haikus) :
              similar_haikus[i] = <<haiku, CosineScore(embedding, embedding)>>
        /\ \A i \in 1..Len(similar_haikus) :
              similar_haikus[i][2] <= CosineScore(embedding, embedding)

\* C5 amended: in every successful run the first result has the score of
\* the stored point against itself and no result scores strictly higher;
\* the point stored under id 1 is itself among the results whenever fewer
\* than `limit` (2) other points of the collection score as high as it.
C5_StoredPointTopUnlessTied ==
    pc = "done" =>
        /\ Len(similar_haikus) >= 1
        /\ similar_haikus[1][2] = CosineScore(embedding, embedding)
        /\ \A i \in 1..Len(similar_haikus) :
              similar_haikus[i][2] <= CosineScore(embedding, embedding)
        /\ Cardinality({p \in Others(points) :
                          CosineScore(p.vector, embedding) >= CosineScore(embedding, embedding)}) < 2
              => \E i \in 1..Len(similar_haikus) :
                    /\ hits[i].id = 1
                    /\ similar_haikus[i] = <<haiku, CosineScore(embedding, embedding)>>

C5_Witness ==
    /\ pc = "done"
    /\ Cardinality(points) = 3
    /\ Len(similar_haikus) = 2
    /\ hits[1].id = 1
    /\ similar_haikus[1] = <<haiku, 100>>
    /\ similar_haikus[2][2] < 100

\* C6: the search of main() (limit 2) returns at most 2 pairs in
\* non-increasing score order; for every limit, the pairs returned are as
\* many as the hits of the vector store, at most `limit`, and pair i is the
\* text and the score of hit i.
C6_SearchBoundedOrdered ==
    /\ pc \in {"print", "exit_main", "done"} =>
          /\ Len(similar_haikus) <= 2
          /\ NonIncreasing(similar_haikus)
          /\ Len(similar_haikus) = Len(hits)
          /\ \A i \in 1..Len(hits) : similar_haikus[i] = <<hits[i].payload, hits[i].score>>
    /\ pc = "search_similar_haikus" =>
          \A limit \in 0..MaxLimit :
             \A h \in SearchHits(points, embedding, limit) :
                /\ Len(HaikuScorePairs(h)) = Len(h)
                /\ Len(HaikuScorePairs(h)) <= limit
                /\ NonIncreasing(HaikuScorePairs(h))
                /\ \A i \in 1..Len(h) : HaikuScorePairs(h)[i] = <<h[i].payload, h[i].score>>

C6_Witness ==
    /\ pc = "print"
    /\ Cardinality(points) = 3
    /\ Len(similar_haikus) = 2
    /\ similar_haikus[1][2] > similar_haikus[2][2]

\* C7: the collection never holds two points with id 1; after a successful
\* run its point with id 1 has the vector and the payload of that run; the
\* points with other ids are those the collection held before the run.
C7_UpsertOverwrites ==
    /\ Cardinality({p \in points : p.id = 1}) <= 1
    /\ Others(points) = Others(points0)
    /\ pc = "done" =>
          {p \in points : p.id = 1} = {[id |-> 1, vector |-> embedding, payload |-> haiku]}

C7_Witness ==
    /\ pc = "done"
    /\ run = 2
    /\ \E p \in points0 : p.id = 1 /\ (p.vector # embedding \/ p.payload # haiku)
    /\ Others(points) # {}

\* C8 as stated: while main() runs, the span "main" is open and recording;
\* "generate-and-store" and "search-similar" are recording children of
\* "main"; generation, embedding and storage run inside "generate-and-store",
\* after the tracer is configured; the search runs inside "search-similar",
\* after "generate-and-store" was closed; every finished span was exported
\* to the configured endpoint.
C8_NestedRecordedSpans ==
    /\ pc \in {"setup_environment", "configure_phoenix", "setup_qdrant", "openai_client",
               "generate_haiku", "generate_embedding", "store_in_qdrant", "exit_generate",
               "enter_search", "search_similar_haikus", "print", "exit_main"} =>
          /\ spans # <<>>
          /\ spans[1].name = "main"
          /\ spans[1].recording
    /\ \A i \in 1..Len(spans) :
          spans[i].name \in {"generate-and-store", "search-similar"} =>
             /\ spans[i].recording
             /\ spans[i].parent = "main"
    /\ pc \in {"generate_haiku", "generate_embedding", "store_in_qdrant"} =>
          /\ provider = "sdk"
          /\ Last(spans).name = "generate-and-store"
    /\ pc = "search_similar_haikus" =>
          /\ Last(spans).name = "search-similar"
          /\ closed = <<"generate-and-store">>
    /\ pc = "done" =>
          exported = {[name |-> "main", parent |-> "none", endpoint |-> phoenix_endpoint],
                      [name |-> "generate-and-store", parent |-> "main",
                       endpoint |-> phoenix_endpoint],
                      [name |-> "search-similar", parent |-> "main",
                       endpoint |-> phoenix_endpoint]}

\* C9: the calls of a run are a prefix of the fixed order (load, register,
\* listing, optional creation, completion, embedding, upsert, search), so
\* each is made at most once, and every call but the last one returned.
C9_FixedOrderOnce ==
    /\ \/ IsPrefix(Ops(calls), OrderWithCreate)
       \/ IsPrefix(Ops(calls), OrderWithoutCreate)
    /\ \A op \in NetworkCalls \cup {"load_dotenv"} : Count(Ops(calls), op) <= 1
    /\ \A i \in 1..Len(calls) : i < Len(calls) => calls[i].ok

C9_Witness ==
    /\ pc = "done"
    /\ Ops(calls) = OrderWithCreate

\* C10: as long as a run has made no upsert call the stored points are those
\* it started with; when such a run has failed, every span it entered has
\* been exited, innermost first, and a collection it created still exists.
C10_FailureLeavesPoints ==
    (\A i \in 1..Len(calls) : calls[i].op # "upsert") =>
        /\ points = points0
        /\ pc = "failed" =>
              /\ spans = <<>>
              /\ closed = Reverse(opened)
              /\ (\E i \in 1..Len(calls) : calls[i] = Call("create_collection", TRUE)) =>
                    "haikus" \in collections /\ Len(createLog) = 1

C10_Witness ==
    /\ pc = "failed"
    /\ error = "embeddings.create"
    /\ \E i \in 1..Len(calls) : calls[i] = Call("create_collection", TRUE)
    /\ closed = <<"generate-and-store", "main">>
    /\ "haikus" \in collections
    /\ points = {}

====
